---- MODULE Spec2Model ----
(***************************************************************************)
(* The two WildFire_PubSubClient example sketches as one state machine.    *)
(*   variant = "heap"   : mqtt_publish_in_callback (src/unnamed/part_000)  *)
(*   variant = "stream" : mqtt_stream (src/examples/mqtt_stream)           *)
(* setup() runs connectToNetwork(), the TCP and MQTT connect, and then     *)
(* loop() calls mqttclient.loop(), which dispatches callback().            *)
(***************************************************************************)
EXTENDS Integers, Sequences, FiniteSets, TLC

\* ---------------------------------------------------------------- bounds
\* Longest inbound payload of the heap variant (bytes are modelled).
MaxLen == 3
\* Bytes of heap available to malloc; MaxLen > HeapSize makes malloc fail.
HeapSize == 2
\* Calls of loop() the model follows.
MaxLoops == 2
\* Times the polling stages (checkDHCP, getIPAddress) may report "not ready".
MaxPolls == 1
\* Store reads the model follows inside one callback invocation.
MaxReads == 259

\* ------------------------------------------------------ program constants
\* uint8_t i: the loop counter of the stream callback wraps at 2^8.
Uint8Mod == 256
\* flash.seek(1): the offset the store is reset to.
SENTINEL == 1
\* NULL, the result of a failed malloc.
NULL == 0

Byte == 0..1

Variants == {"heap", "stream"}

\* Payload lengths handed to the stream callback: short ones and the ones
\* around the width of its uint8_t counter.
StreamLengths == (0..MaxLen) \cup {Uint8Mod - 1, Uint8Mod, Uint8Mod + 1}

BytesOfLen(n) == [1..n -> Byte]

AllPayloads == UNION {BytesOfLen(n) : n \in 0..MaxLen}

VARIABLES
  variant,        \* which sketch is flashed on the device
  pc,             \* position of the single thread of control
  calls,          \* driver calls issued by setup(), in order, with results
  clientConnected,\* client.connected()
  mqttConnected,  \* mqttclient.connect() returned true
  subscribed,     \* mqttclient.subscribe("inTopic") returned true
  loopCalls,      \* calls of mqttclient.loop() so far
  invocations,    \* callback invocations so far
  relayPublishes, \* mqttclient.publish calls issued by callback()
  \* --- callback(topic, payload, length) ---
  length,         \* the length argument
  buffer,         \* the driver's buffer that payload points into
  inbound,        \* the payload as received (history, never written again)
  prevLength,     \* length of the heap relay's previous message (history; -1: none)
  p,              \* byte* p of the heap callback
  heapMem,        \* the bytes of the heap
  live,           \* blocks malloc handed out and free has not taken back
  cbMallocs,      \* sizes malloc was asked for in this invocation
  cbFrees,        \* free() calls of this invocation
  cbPubs,         \* publish calls of this invocation
  nullWrite,      \* memcpy wrote through a NULL p in this invocation
  \* --- stream callback ---
  cursor,         \* read/write position of the flash store
  i,              \* uint8_t i
  cbReads,        \* flash.read() calls of this invocation
  cbSeeks,        \* flash.seek() calls of this invocation
  maxOffset       \* highest store offset read by this invocation (0: none)

vars == <<variant, pc, calls, clientConnected, mqttConnected, subscribed,
          loopCalls, invocations, relayPublishes, length, buffer, inbound,
          prevLength, p, heapMem, live, cbMallocs, cbFrees, cbPubs, nullWrite, cursor, i,
          cbReads, cbSeeks, maxOffset>>

sessionVars == <<clientConnected, mqttConnected, subscribed>>
countVars == <<loopCalls, invocations, relayPublishes>>
heapCbVars == <<p, live, cbMallocs, cbFrees, cbPubs, nullWrite>>
streamCbVars == <<i, cbReads, cbSeeks, maxOffset>>
cbVars == <<length, buffer, inbound, prevLength, p, heapMem, live, cbMallocs, cbFrees,
            cbPubs, nullWrite, cursor, i, cbReads, cbSeeks, maxOffset>>

Call(op, ok) == [op |-> op, ok |-> ok]

Init ==
  /\ variant \in Variants
  /\ pc = "setup"
  /\ calls = <<>>
  /\ clientConnected = FALSE
  /\ mqttConnected = FALSE
  /\ subscribed = FALSE
  /\ loopCalls = 0
  /\ invocations = 0
  /\ relayPublishes = 0
  /\ length = 0
  /\ buffer = <<>>
  /\ inbound = <<>>
  /\ prevLength = -1
  /\ p = NULL
  /\ heapMem \in (IF variant = "heap" THEN [1..HeapSize -> Byte]
                                         ELSE {[a \in 1..HeapSize |-> 0]})
  /\ live = {}
  /\ cbMallocs = <<>>
  /\ cbFrees = 0
  /\ cbPubs = <<>>
  /\ nullWrite = FALSE
  /\ cursor = 0
  /\ i = 0
  /\ cbReads = 0
  /\ cbSeeks = 0
  /\ maxOffset = 0

\* ------------------------------------------------------------- setup()
\* Polls of `op` that reported "not ready" so far.
NotReady(op) == Cardinality({k \in 1..Len(calls) : calls[k] = Call(op, FALSE)})

\* The polling loops have no bound of their own; the model follows MaxPolls
\* "not ready" answers over the two of them.
PollBudgetLeft == NotReady("checkDHCP") + NotReady("getIPAddress") < MaxPolls

\* setup(): wf.begin(), Serial.begin(115200), the banner; then the stream
\* sketch initialises the flash and the heap sketch goes to the network.
Setup ==
  /\ pc = "setup"
  /\ pc' = IF variant = "stream" THEN "flash_init" ELSE "begin"
  /\ UNCHANGED <<variant, calls, sessionVars, countVars, cbVars>>

\* A failed flash.initialize() that stops the device.
FlashInitFatal_Halts(ok) == ~ok

\* if (flash.initialize()) println("Init OK!") else println("Init FAIL!"):
\* both branches only print.
FlashInitFatal(ok) == FALSE

FlashInitialize ==
  /\ pc = "flash_init"
  /\ \E ok \in BOOLEAN :
       /\ calls' = Append(calls, Call("flash.initialize", ok))
       /\ pc' = IF FlashInitFatal(ok) THEN "halted" ELSE "begin"
  /\ UNCHANGED <<variant, sessionVars, countVars, cbVars>>

\* A begin() whose failure is not acted on.
BeginFailed_Ignored(ok) == FALSE

\* if (!cc3000.begin()) { ...; for(;;); }
BeginFailed(ok) == ~ok

CC3000Begin ==
  /\ pc = "begin"
  /\ \E ok \in BOOLEAN :
       /\ calls' = Append(calls, Call("begin", ok))
       /\ pc' = IF BeginFailed(ok) THEN "halted" ELSE "firmware"
  /\ UNCHANGED <<variant, sessionVars, countVars, cbVars>>

\* checkFirmwareVersion(): the driver's answer only selects what is printed,
\* which is left out, so the call is logged as answered.
CheckFirmwareVersion ==
  /\ pc = "firmware"
  /\ calls' = Append(calls, Call("getFirmwareVersion", TRUE))
  /\ pc' = "mac"
  /\ UNCHANGED <<variant, sessionVars, countVars, cbVars>>

\* A bootstrap that goes straight to the association.
StageAfterMac_SkipProfiles == "connectToAP"

\* The stage connectToNetwork() runs after displayMACAddress().
StageAfterMac == "deleteProfiles"

\* displayMACAddress(): as for the firmware version, only printed.
DisplayMACAddress ==
  /\ pc = "mac"
  /\ calls' = Append(calls, Call("getMacAddress", TRUE))
  /\ pc' = StageAfterMac
  /\ UNCHANGED <<variant, sessionVars, countVars, cbVars>>

\* A deleteProfiles() whose failure is not acted on.
DeleteProfilesFailed_Ignored(ok) == FALSE

\* if (!cc3000.deleteProfiles()) { ...; while(1); }
DeleteProfilesFailed(ok) == ~ok

DeleteProfiles ==
  /\ pc = "deleteProfiles"
  /\ \E ok \in BOOLEAN :
       /\ calls' = Append(calls, Call("deleteProfiles", ok))
       /\ pc' = IF DeleteProfilesFailed(ok) THEN "halted" ELSE "connectToAP"
  /\ UNCHANGED <<variant, sessionVars, countVars, cbVars>>

\* A test of connectToAP() that lost its negation.
ConnectToAPFailed_Inverted(ok) == ok

\* A connectToAP() whose failure is not acted on.
ConnectToAPFailed_Ignored(ok) == FALSE

\* if (!cc3000.connectToAP(...)) { ...; while(1); }
ConnectToAPFailed(ok) == ~ok

ConnectToAP ==
  /\ pc = "connectToAP"
  /\ \E ok \in BOOLEAN :
       /\ calls' = Append(calls, Call("connectToAP", ok))
       /\ pc' = IF ConnectToAPFailed(ok) THEN "halted" ELSE "checkDHCP"
  /\ UNCHANGED <<variant, sessionVars, countVars, cbVars>>

\* A DHCP wait that gives up after one answer.
DhcpPending_GivesUp(ok) == FALSE

\* while (!cc3000.checkDHCP())
DhcpPending(ok) == ~ok

\* while (!cc3000.checkDHCP()) { delay(100); }
CheckDHCP ==
  /\ pc = "checkDHCP"
  /\ \E ok \in BOOLEAN :
       /\ ok \/ PollBudgetLeft
       /\ calls' = Append(calls, Call("checkDHCP", ok))
       /\ pc' = IF DhcpPending(ok) THEN "checkDHCP" ELSE "getIPAddress"
  /\ UNCHANGED <<variant, sessionVars, countVars, cbVars>>

\* An address wait that gives up after one answer.
DetailsPending_GivesUp(ok) == FALSE

\* while (!displayConnectionDetails())
DetailsPending(ok) == ~ok

\* while (!displayConnectionDetails()) { delay(1000); }
DisplayConnectionDetails ==
  /\ pc = "getIPAddress"
  /\ \E ok \in BOOLEAN :
       /\ ok \/ PollBudgetLeft
       /\ calls' = Append(calls, Call("getIPAddress", ok))
       /\ pc' = IF DetailsPending(ok) THEN "getIPAddress" ELSE "connectTCP"
  /\ UNCHANGED <<variant, sessionVars, countVars, cbVars>>

\* for(;;); and while(1); : the device spins and does nothing else.
Halted ==
  /\ pc = "halted"
  /\ UNCHANGED vars

\* A transport that is opened again whatever its state.
TransportNeeded_Always(conn) == TRUE

\* if (!client.connected())
TransportNeeded(conn) == ~conn

\* if (!client.connected()) { client = cc3000.connectTCP(server.ip, 1883); }
ConnectTransport ==
  /\ pc = "connectTCP"
  /\ IF TransportNeeded(clientConnected)
       THEN \E ok \in BOOLEAN :
              /\ calls' = Append(calls, Call("connectTCP", ok))
              /\ clientConnected' = ok
       ELSE UNCHANGED <<calls, clientConnected>>
  /\ pc' = "mqtt_connect"
  /\ UNCHANGED <<variant, mqttConnected, subscribed, countVars, cbVars>>

\* A setup() that returns right after the connect block.
AfterSession_SkipFlash == "loop"

\* Where setup() goes after the if (mqttclient.connect(...)) {...} block.
AfterSession == IF variant = "stream" THEN "flash_begin" ELSE "loop"

\* An announcement and subscription that do not depend on the connect.
SessionBlockEntered_Always(ok) == TRUE

\* if (mqttclient.connect("arduinoClient")) { ... }
SessionBlockEntered(ok) == ok

\* A connect whose failure stops the device like a bootstrap failure.
AfterConnectFailure_Fatal == "halted"

\* The if has no else: after a failed connect setup() just goes on.
AfterConnectFailure == AfterSession

\* if (mqttclient.connect("arduinoClient")) { publish; subscribe; }
\* The handshake needs the transport: it cannot succeed on a closed one.
MqttConnect ==
  /\ pc = "mqtt_connect"
  /\ \E ok \in (IF clientConnected THEN BOOLEAN ELSE {FALSE}) :
       /\ calls' = Append(calls, Call("mqtt.connect", ok))
       /\ mqttConnected' = ok
       /\ pc' = IF SessionBlockEntered(ok) THEN "hello" ELSE AfterConnectFailure
  /\ UNCHANGED <<variant, clientConnected, subscribed, countVars, cbVars>>

\* mqttclient.publish("outTopic","hello world"); the result is dropped.
PublishHello ==
  /\ pc = "hello"
  /\ \E ok \in BOOLEAN : calls' = Append(calls, Call("mqtt.publish", ok))
  /\ pc' = "subscribe"
  /\ UNCHANGED <<variant, sessionVars, countVars, cbVars>>

\* mqttclient.subscribe("inTopic"); the result is dropped.
Subscribe ==
  /\ pc = "subscribe"
  /\ \E ok \in BOOLEAN :
       /\ calls' = Append(calls, Call("mqtt.subscribe", ok))
       /\ subscribed' = ok
  /\ pc' = AfterSession
  /\ UNCHANGED <<variant, clientConnected, mqttConnected, countVars, cbVars>>

\* flash.begin();
FlashBegin ==
  /\ pc = "flash_begin"
  /\ calls' = Append(calls, Call("flash.begin", TRUE))
  /\ pc' = "flash_seek"
  /\ UNCHANGED <<variant, sessionVars, countVars, cbVars>>

\* flash.seek(1); the last statement of setup().
FlashSeek ==
  /\ pc = "flash_seek"
  /\ calls' = Append(calls, Call("flash.seek", TRUE))
  /\ cursor' = SENTINEL
  /\ pc' = "loop"
  /\ UNCHANGED <<variant, sessionVars, countVars, length, buffer, inbound, prevLength,
                 heapMem, heapCbVars, streamCbVars>>

\* -------------------------------------------------------------- loop()
\* loop(): mqttclient.loop() with no PUBLISH packet waiting.
LoopIdle ==
  /\ pc = "loop"
  /\ loopCalls < MaxLoops
  /\ loopCalls' = loopCalls + 1
  /\ UNCHANGED <<variant, pc, calls, sessionVars, invocations, relayPublishes,
                 cbVars>>

\* The MQTT driver has a message to dispatch only on a session that is
\* connected and subscribed to the inbound topic.
Deliverable == mqttConnected /\ subscribed

\* The store's cursor after the driver wrote the n payload bytes it received
\* to the stream, one by one.
Received(cur, n) == cur + n

\* A stream sketch whose callback is the republishing one.
CallbackEntry_Republish == "cb_malloc"

\* The first statement of the sketch's callback(): malloc in the heap sketch,
\* flash.seek(1) in the stream sketch.
CallbackEntry == IF variant = "heap" THEN "cb_malloc" ELSE "cb_seek"

\* loop(): mqttclient.loop() receives a PUBLISH on the subscription and calls
\* callback(topic, payload, length) before it returns.  With a stream the
\* driver has written the payload to it, which advanced the store's cursor.
LoopDispatch ==
  /\ pc = "loop"
  /\ loopCalls < MaxLoops
  /\ Deliverable
  /\ pc' = CallbackEntry
  /\ loopCalls' = loopCalls + 1
  /\ invocations' = invocations + 1
  /\ IF variant = "heap"
       THEN \E pl \in AllPayloads :
              /\ length' = Len(pl)
              /\ buffer' = pl
              /\ inbound' = pl
              /\ UNCHANGED cursor
       ELSE \E n \in StreamLengths :
              /\ length' = n
              /\ cursor' = Received(cursor, n)
              /\ UNCHANGED <<buffer, inbound>>
  /\ UNCHANGED <<variant, calls, sessionVars, relayPublishes, prevLength,
                 heapMem, heapCbVars, streamCbVars>>

\* ------------------------------------------- callback(), heap sketch
\* malloc(n): the block malloc returns, or NULL.  Blocks are laid out from
\* address 1; a request that does not fit the free heap fails, and malloc(0)
\* may return either NULL or a block of no bytes.
Used == IF live = {} THEN 0
        ELSE CHOOSE m \in 0..HeapSize + 1 :
               /\ \E b \in live : b.addr + b.size - 1 = m
               /\ \A b \in live : b.addr + b.size - 1 <= m

MallocResults(n) ==
  IF n = 0 THEN {NULL, Used + 1}
  ELSE IF Used + n <= HeapSize THEN {Used + 1}
  ELSE {NULL}

\* byte* p = (byte*)malloc(length);
MallocSize(len) == len

CbMalloc ==
  /\ pc = "cb_malloc"
  /\ \E r \in MallocResults(MallocSize(length)) :
       /\ p' = r
       /\ live' = IF r = NULL THEN live
                  ELSE live \cup {[addr |-> r, size |-> MallocSize(length)]}
  /\ cbMallocs' = Append(cbMallocs, MallocSize(length))
  /\ pc' = "cb_memcpy"
  /\ UNCHANGED <<variant, calls, sessionVars, countVars, length, buffer,
                 inbound, prevLength, heapMem, cbFrees, cbPubs, nullWrite, cursor,
                 streamCbVars>>

\* A copy that stops one byte short.
MemcpyLen_Short(len) == IF len > 0 THEN len - 1 ELSE 0

\* memcpy(p,payload,length);
MemcpyLen(len) == len

\* The heap after n bytes of src were copied to address dst.
Copied(mem, dst, src, n) ==
  [a \in 1..HeapSize |->
     IF a >= dst /\ a < dst + n /\ a - dst + 1 <= Len(src)
       THEN src[a - dst + 1] ELSE mem[a]]

\* memcpy through p.  Through a NULL p with a length above 0 the behaviour is
\* undefined: the device may stop here, or run on with whatever was written.
CbMemcpy ==
  /\ pc = "cb_memcpy"
  /\ IF MemcpyLen(length) = 0
       THEN /\ pc' = "cb_publish"
            /\ UNCHANGED <<heapMem, nullWrite>>
       ELSE IF p = NULL
         THEN /\ nullWrite' = TRUE
              /\ pc' \in {"cb_publish", "crashed"}
              /\ UNCHANGED heapMem
         ELSE /\ heapMem' = Copied(heapMem, p, buffer, MemcpyLen(length))
              /\ pc' = "cb_publish"
              /\ UNCHANGED nullWrite
  /\ UNCHANGED <<variant, calls, sessionVars, countVars, length, buffer,
                 inbound, prevLength, p, live, cbMallocs, cbFrees, cbPubs, cursor,
                 streamCbVars>>

\* The device after undefined behaviour stopped it: nothing runs any more.
Crashed ==
  /\ pc = "crashed"
  /\ UNCHANGED vars

\* A publish that is handed the driver's own buffer.
PublishArg_Inbound == "payload"

\* mqttclient.publish("outTopic", p, length): the arguments.
PublishTopic == "outTopic"
PublishArg == "p"
PublishLen(len) == len

\* The n bytes the driver reads to build the packet, given the pointer it was
\* handed and the driver buffer as it is while the packet is built.  Bytes at
\* NULL or outside the heap are not the program's: whatever lies there (one
\* value, repeated, stands for it).
PublishedData(arg, buf, n) ==
  IF n = 0 THEN {<<>>}
  ELSE IF arg = "payload"
    THEN {[k \in 1..n |-> IF k <= Len(buf) THEN buf[k] ELSE 0]}
  ELSE IF p = NULL \/ p + n - 1 > HeapSize
    THEN {[k \in 1..n |-> g] : g \in Byte}
  ELSE {[k \in 1..n |-> heapMem[p + k - 1]]}

\* publish builds the PUBLISH packet in the driver's own buffer, the one
\* payload points into: "the orignal payload buffer will be overwritten
\* whilst constructing the PUBLISH packet".  Its result is dropped.
CbPublish ==
  /\ pc = "cb_publish"
  /\ \E ok \in BOOLEAN, junk \in Byte :
     LET nb == [k \in 1..Len(buffer) |-> junk] IN
       /\ buffer' = nb
       /\ \E data \in PublishedData(PublishArg, nb, PublishLen(length)) :
            cbPubs' = Append(cbPubs, [topic |-> PublishTopic,
                                      len |-> PublishLen(length),
                                      arg |-> IF PublishArg = "p" THEN p ELSE -1,
                                      data |-> data,
                                      ok |-> ok])
  /\ relayPublishes' = relayPublishes + 1
  /\ pc' = "cb_free"
  /\ UNCHANGED <<variant, calls, sessionVars, loopCalls, invocations, length,
                 inbound, prevLength, p, heapMem, live, cbMallocs, cbFrees, nullWrite,
                 cursor, streamCbVars>>

\* A release that is skipped when publish fails.
FreeReached_OnSuccess(pubOk) == pubOk

\* free(p); runs whatever publish returned.
FreeReached(pubOk) == TRUE

CbFree ==
  /\ pc = "cb_free"
  /\ IF FreeReached(cbPubs[Len(cbPubs)].ok)
       THEN /\ live' = {b \in live : b.addr # p}
            /\ cbFrees' = cbFrees + 1
       ELSE UNCHANGED <<live, cbFrees>>
  /\ pc' = "cb_return"
  /\ UNCHANGED <<variant, calls, sessionVars, countVars, length, buffer,
                 inbound, prevLength, p, heapMem, cbMallocs, cbPubs, nullWrite, cursor,
                 streamCbVars>>

\* ------------------------------------------ callback(), stream sketch
\* flash.seek(1);  and  uint8_t i=0
CbSeek ==
  /\ pc = "cb_seek"
  /\ cursor' = SENTINEL
  /\ cbSeeks' = cbSeeks + 1
  /\ i' = 0
  /\ pc' = "cb_read"
  /\ UNCHANGED <<variant, calls, sessionVars, countVars, length, buffer,
                 inbound, prevLength, heapMem, heapCbVars, cbReads, maxOffset>>

\* A loop that runs once more than the length.
LoopCond_OffByOne(iv, len) == iv <= len

\* i<length
LoopCond(iv, len) == iv < len

\* One turn of for(uint8_t i=0; i<length; i++) { Serial.write(flash.read()); }
CbRead ==
  /\ pc = "cb_read"
  /\ LoopCond(i, length)
  /\ cbReads < MaxReads
  /\ cbReads' = cbReads + 1
  /\ maxOffset' = IF cursor > maxOffset THEN cursor ELSE maxOffset
  /\ cursor' = cursor + 1
  /\ i' = (i + 1) % Uint8Mod
  /\ UNCHANGED <<variant, pc, calls, sessionVars, countVars, length, buffer,
                 inbound, prevLength, heapMem, heapCbVars, cbSeeks>>

\* The loop ends; Serial.println();
CbReadDone ==
  /\ pc = "cb_read"
  /\ ~LoopCond(i, length)
  /\ pc' = "cb_reset"
  /\ UNCHANGED <<variant, calls, sessionVars, countVars, cbVars>>

\* A callback that leaves the cursor where the reads took it.
ResetOffset_Missing(cur) == cur

\* flash.seek(1);  "Reset position for the next message to be stored"
ResetOffset(cur) == SENTINEL

CbReset ==
  /\ pc = "cb_reset"
  /\ cursor' = ResetOffset(cursor)
  /\ cbSeeks' = cbSeeks + 1
  /\ pc' = "cb_return"
  /\ UNCHANGED <<variant, calls, sessionVars, countVars, length, buffer,
                 inbound, prevLength, heapMem, heapCbVars, i, cbReads, maxOffset>>

\* callback() returns into mqttclient.loop(), which returns into loop().
\* Its locals and arguments are gone; the heap and the store stay.
CbReturn ==
  /\ pc = "cb_return"
  /\ pc' = "loop"
  /\ length' = 0
  /\ buffer' = <<>>
  /\ inbound' = <<>>
  /\ prevLength' = IF variant = "heap" THEN length ELSE prevLength
  /\ p' = NULL
  /\ cbMallocs' = <<>>
  /\ cbFrees' = 0
  /\ cbPubs' = <<>>
  /\ nullWrite' = FALSE
  /\ i' = 0
  /\ cbReads' = 0
  /\ cbSeeks' = 0
  /\ maxOffset' = 0
  /\ UNCHANGED <<variant, calls, sessionVars, countVars, heapMem, live, cursor>>

Next ==
  \/ Setup
  \/ FlashInitialize
  \/ CC3000Begin
  \/ CheckFirmwareVersion
  \/ DisplayMACAddress
  \/ DeleteProfiles
  \/ ConnectToAP
  \/ CheckDHCP
  \/ DisplayConnectionDetails
  \/ Halted
  \/ ConnectTransport
  \/ MqttConnect
  \/ PublishHello
  \/ Subscribe
  \/ FlashBegin
  \/ FlashSeek
  \/ LoopIdle
  \/ LoopDispatch
  \/ CbMalloc
  \/ CbMemcpy
  \/ Crashed
  \/ CbPublish
  \/ CbFree
  \/ CbSeek
  \/ CbRead
  \/ CbReadDone
  \/ CbReset
  \/ CbReturn

Spec == Init /\ [][Next]_vars

\* client.connected() is the CC3000 driver's answer.  The sketches construct
\* client just before setup(), and Init takes it as not connected; here the
\* answer the guard of connectTCP gets is either one.
InitTransport ==
  /\ variant \in Variants
  /\ pc = "setup"
  /\ calls = <<>>
  /\ clientConnected \in BOOLEAN
  /\ mqttConnected = FALSE
  /\ subscribed = FALSE
  /\ loopCalls = 0
  /\ invocations = 0
  /\ relayPublishes = 0
  /\ length = 0
  /\ buffer = <<>>
  /\ inbound = <<>>
  /\ prevLength = -1
  /\ p = NULL
  /\ heapMem = [a \in 1..HeapSize |-> 0]
  /\ live = {}
  /\ cbMallocs = <<>>
  /\ cbFrees = 0
  /\ cbPubs = <<>>
  /\ nullWrite = FALSE
  /\ cursor = 0
  /\ i = 0
  /\ cbReads = 0
  /\ cbSeeks = 0
  /\ maxOffset = 0

SpecTransport == InitTransport /\ [][Next]_vars

\* The sketch is the only thread of the device and the processor keeps
\* executing it: a statement that can run does run.  The polls answer
\* "not ready" at most MaxPolls times, so the driver does report completion.
LiveSpec == Init /\ [][Next]_vars /\ WF_vars(Next)

\* ===================================================== claims, heap relay
InCallback == pc \in {"cb_malloc", "cb_memcpy", "cb_publish", "cb_free",
                      "cb_return", "cb_seek", "cb_read", "cb_reset"}

\* The heap relay has run every statement of callback() up to the publish.
HeapPublished == variant = "heap" /\ pc \in {"cb_free", "cb_return"}

\* MAX of the heap strategy: the largest payload the heap can hold a copy of.
MAX == HeapSize

\* C1: heap relay, payload lengths in [0, MAX]: an invocation issues no
\* publish before its copy is made and exactly one afterwards, to "outTopic",
\* with the inbound length and the inbound bytes; whatever an earlier message
\* left in the heap does not show in it.
C1_HeapRelayByteIdentical ==
  (variant = "heap" /\ InCallback /\ length <= MAX) =>
     /\ pc \in {"cb_malloc", "cb_memcpy", "cb_publish"} => cbPubs = <<>>
     /\ HeapPublished =>
          /\ Len(cbPubs) = 1
          /\ cbPubs[1].topic = "outTopic"
          /\ cbPubs[1].len = Len(inbound)
          /\ cbPubs[1].data = inbound

\* A second message, longer than the first, has been relayed unchanged.
C1_Witness ==
  /\ variant = "heap" /\ pc = "cb_return"
  /\ invocations >= 2
  /\ prevLength >= 1 /\ prevLength < length /\ length <= MAX
  /\ Len(cbPubs) = 1 /\ cbPubs[1].data = inbound

\* C2: heap relay: an invocation asks malloc once, for exactly length bytes,
\* and has released the block when it returns, whatever publish returned; no
\* block is outstanding while no callback is executing.
C2_OneAllocationReleased ==
  variant = "heap" =>
     /\ pc = "cb_return" =>
          /\ cbMallocs = <<length>>
          /\ cbFrees = 1
          /\ live = {}
     /\ ~InCallback => live = {}

\* A block was allocated, the publish failed, and the block is released.
C2_Witness ==
  /\ variant = "heap" /\ pc = "cb_return"
  /\ length > 0 /\ p # NULL
  /\ cbPubs[1].ok = FALSE
  /\ live = {}

\* C3 (as stated): when publish is issued the private block holds all length
\* bytes of the payload, publish is handed that block, and the published
\* bytes equal the original payload although the driver overwrites its
\* buffer while it builds the packet.
C3_PublishFromCompleteCopy ==
  (variant = "heap" /\ length > 0) =>
     /\ pc \in {"cb_publish", "cb_free", "cb_return"} =>
          /\ p # NULL
          /\ \A k \in 1..length : heapMem[p + k - 1] = inbound[k]
     /\ HeapPublished =>
          /\ cbPubs[1].arg = p
          /\ cbPubs[1].data = inbound

\* C3 where malloc returned a block: the statement above holds.
C3_HoldsWhenAllocated ==
  (variant = "heap" /\ length > 0 /\ length <= MAX) =>
     C3_PublishFromCompleteCopy

\* The driver overwrote its buffer with other bytes and the published bytes
\* are still the payload's.
C3_WitnessAllocated ==
  /\ HeapPublished /\ length > 0 /\ p # NULL
  /\ buffer # inbound
  /\ cbPubs[1].data = inbound

\* C4 (as stated): when malloc fails for a payload of length bytes, nothing
\* is copied through the failed allocation and no truncated or invalid
\* payload is published.
C4_AllocationFailureSurfaced ==
  (variant = "heap" /\ length > 0 /\ p = NULL
     /\ pc \in {"cb_publish", "cb_free", "cb_return", "crashed"}) =>
     /\ ~nullWrite
     /\ cbPubs = <<>>

\* =================================================== claims, stream relay
\* C5: stream relay: the store's cursor is at the sentinel offset whenever
\* loop() is about to call mqttclient.loop() and whenever callback() returns,
\* so it is the same before a message is received and after it is relayed.
C5_CursorAtSentinel ==
  variant = "stream" =>
     /\ pc = "loop" => cursor = SENTINEL
     /\ pc = "cb_return" => cursor = SENTINEL

\* A message of several bytes was read back and the cursor is reset.
C5_Witness ==
  /\ variant = "stream" /\ pc = "cb_return"
  /\ length >= 2 /\ cbReads = length
  /\ cursor = SENTINEL

\* C6 (as stated): stream relay, any length: callback() reads the store
\* exactly length times between its two seeks and then returns; it never
\* reads more than length times.
C6_ReadsExactlyLength ==
  variant = "stream" =>
     /\ pc \in {"cb_read", "cb_reset", "cb_return"} => cbReads <= length
     /\ pc \in {"cb_reset", "cb_return"} => cbReads = length

\* C7: a payload of length 0.  Heap relay: one malloc, of size 0, nothing
\* written through NULL, and exactly one publish, to "outTopic", of length 0.
\* Stream relay: no store read, and the cursor is only ever put on the
\* sentinel offset.
C7_ZeroLengthNoOp ==
  (InCallback /\ length = 0) =>
     /\ HeapPublished =>
          /\ cbMallocs = <<0>>
          /\ ~nullWrite
          /\ Len(cbPubs) = 1
          /\ cbPubs[1].topic = "outTopic"
          /\ cbPubs[1].len = 0
          /\ cbPubs[1].data = <<>>
     /\ (variant = "stream" /\ pc \in {"cb_read", "cb_reset", "cb_return"}) =>
          /\ cbReads = 0
          /\ maxOffset = 0
          /\ cursor = SENTINEL

\* The heap relay has relayed an empty payload.
C7_Witness ==
  /\ variant = "heap" /\ pc = "cb_return"
  /\ length = 0 /\ inbound = <<>>
  /\ Len(cbPubs) = 1 /\ cbFrees = 1

\* The stream relay has handled an empty payload.
C7_WitnessStream ==
  /\ variant = "stream" /\ pc = "cb_return"
  /\ length = 0 /\ cbSeeks = 2 /\ cbReads = 0

\* ======================================================= claims, bootstrap
StageOps == <<"begin", "deleteProfiles", "connectToAP", "checkDHCP",
              "getIPAddress">>

IsStageOp(op) == op \in {StageOps[n] : n \in 1..Len(StageOps)}

StageIndex(op) ==
  CASE op = "begin" -> 1
    [] op = "deleteProfiles" -> 2
    [] op = "connectToAP" -> 3
    [] op = "checkDHCP" -> 4
    [] op = "getIPAddress" -> 5
    [] OTHER -> 0

IsStageCall(c) == IsStageOp(c.op)

IsSuccess(c) == c.ok

\* The bootstrap stage calls issued so far, in order.
StageCalls == SelectSeq(calls, IsStageCall)

\* The stages that have reported success, in order.
StagesPassed ==
  LET won == SelectSeq(StageCalls, IsSuccess)
  IN  [k \in 1..Len(won) |-> won[k].op]

BootstrapDone == pc \in {"connectTCP", "mqtt_connect", "hello", "subscribe",
                         "flash_begin", "flash_seek", "loop"} \/ InCallback
                   \/ pc = "crashed"

\* C8: the stage calls come in the order begin, deleteProfiles, connectToAP,
\* checkDHCP, getIPAddress: the first is begin, a call of the next stage
\* follows only a success of the stage before it, a stage is called again
\* only when it is a poll that reported "not ready", and when bootstrap is
\* over the five stages have succeeded once each, in that order.
C8_StagesInOrder ==
  LET s == StageCalls IN
    /\ Len(s) > 0 => s[1].op = "begin"
    /\ \A k \in 2..Len(s) :
         IF s[k].op = s[k-1].op
           THEN ~s[k-1].ok /\ s[k].op \in {"checkDHCP", "getIPAddress"}
           ELSE s[k-1].ok /\ StageIndex(s[k].op) = StageIndex(s[k-1].op) + 1
    /\ BootstrapDone => StagesPassed = StageOps

\* Bootstrap is over, and a poll had to be repeated on the way.
C8_Witness ==
  /\ pc = "connectTCP"
  /\ NotReady("checkDHCP") + NotReady("getIPAddress") >= 1
  /\ StagesPassed = StageOps

HaltedAfter(op) ==
  \A k \in 1..Len(calls) :
     calls[k] = Call(op, FALSE) =>
        /\ k = Len(calls)
        /\ pc = "halted"
        /\ ~clientConnected /\ ~mqttConnected /\ ~subscribed
        /\ loopCalls = 0 /\ invocations = 0 /\ relayPublishes = 0

\* C9: once begin() has reported failure the device is halted: that call is
\* the last driver call there is, and neither the service loop nor the
\* callback has run.
C9_HaltAfterBeginFailure == HaltedAfter("begin")

\* begin() failed and the device spins.
C9_Witness ==
  /\ pc = "halted"
  /\ Len(calls) > 0 /\ calls[Len(calls)] = Call("begin", FALSE)

\* C10: once deleteProfiles() or connectToAP() has reported failure the
\* device is halted for good: that call is the last driver call there is, no
\* later stage, TCP or MQTT call is issued and loop() is never reached.
C10_HaltAfterProfileOrAPFailure ==
  HaltedAfter("deleteProfiles") /\ HaltedAfter("connectToAP")

\* connectToAP() failed after the earlier stages succeeded.
C10_Witness ==
  /\ pc = "halted"
  /\ Len(calls) > 0 /\ calls[Len(calls)] = Call("connectToAP", FALSE)

\* deleteProfiles() failed and the device spins.
C10_WitnessProfiles ==
  /\ pc = "halted"
  /\ Len(calls) > 0 /\ calls[Len(calls)] = Call("deleteProfiles", FALSE)

\* ========================================================= claims, session
ConnectFailedAt(k) == k \in 1..Len(calls) /\ calls[k] = Call("mqtt.connect", FALSE)

\* C11: once mqttclient.connect() has returned failure, setup() issues
\* neither publish nor subscribe, and no later loop() call runs the relay
\* callback, so nothing is published from there either.
C11_NoPublishAfterConnectFailure ==
  \A k \in 1..Len(calls) :
     ConnectFailedAt(k) =>
        /\ \A j \in k + 1..Len(calls) :
              calls[j].op \notin {"mqtt.publish", "mqtt.subscribe"}
        /\ ~subscribed
        /\ invocations = 0
        /\ relayPublishes = 0

\* The connect failed on an open transport and loop() has been called since.
C11_Witness ==
  /\ \E k \in 1..Len(calls) : ConnectFailedAt(k)
  /\ clientConnected
  /\ pc = "loop" /\ loopCalls = MaxLoops

\* C12: connectTCP and mqttclient.connect are issued only after bootstrap
\* has succeeded: checkDHCP() has returned true before them, and after that
\* getIPAddress() has returned the address record.
C12_SessionAfterBootstrap ==
  \A k \in 1..Len(calls) :
     calls[k].op \in {"connectTCP", "mqtt.connect"} =>
        \E d \in 1..k - 1 :
           /\ calls[d] = Call("checkDHCP", TRUE)
           /\ \E a \in d + 1..k - 1 : calls[a] = Call("getIPAddress", TRUE)

\* Both calls were issued, after an address poll that had to be repeated.
C12_Witness ==
  /\ \E k \in 1..Len(calls) : calls[k].op = "connectTCP"
  /\ \E k \in 1..Len(calls) : calls[k].op = "mqtt.connect"
  /\ NotReady("getIPAddress") >= 1

\* A step that issues connectTCP.
OpensTransport ==
  /\ Len(calls') = Len(calls) + 1
  /\ calls'[Len(calls')].op = "connectTCP"

\* C13: the guarded connect is idempotent: a step issues connectTCP only at
\* that statement and only when client.connected() is false; when it is true
\* the statement issues no driver call and leaves the client as it is.
C13_TransportIdempotent ==
  [][ /\ OpensTransport => (pc = "connectTCP" /\ ~clientConnected)
      /\ (pc = "connectTCP" /\ clientConnected) =>
            (calls' = calls /\ clientConnected' = clientConnected)
      /\ (pc = "connectTCP" /\ ~clientConnected) => OpensTransport ]_vars

\* The statement has run on a connected client: no connectTCP was issued.
C13_Witness ==
  /\ pc = "mqtt_connect"
  /\ clientConnected
  /\ \A k \in 1..Len(calls) : calls[k].op # "connectTCP"

\* ================================================ claims, bootstrap polling
\* The position of setup() while it polls stage op.
PollPc(op) == IF op = "checkDHCP" THEN "checkDHCP" ELSE "getIPAddress"

\* The k-th driver call is a poll of op that reported "not ready", and the
\* program's next move is that same poll: issued already, or about to be.
PolledAgain(k, op) ==
  IF k = Len(calls) THEN pc = PollPc(op)
  ELSE calls[k + 1].op = op

\* C14: a checkDHCP() or getIPAddress() that reports "not ready" neither
\* halts the device nor ends the stage: the next driver call is the same
\* poll again; no earlier stage is run again and no later one is started.
C14_PendingPollRepeats ==
  \A k \in 1..Len(calls) :
     /\ calls[k] = Call("checkDHCP", FALSE) => PolledAgain(k, "checkDHCP")
     /\ calls[k] = Call("getIPAddress", FALSE) => PolledAgain(k, "getIPAddress")

\* checkDHCP() has just reported "not ready" and is about to be polled again.
C14_Witness ==
  /\ pc = "checkDHCP"
  /\ Len(calls) > 0 /\ calls[Len(calls)] = Call("checkDHCP", FALSE)

\* The k-th driver call is a stage call that failed, and the program's next
\* move is that stage again (the position of a stage is named after its call).
AttemptedAgain(k) ==
  IF k = Len(calls) THEN pc = calls[k].op
  ELSE calls[k + 1].op = calls[k].op

\* C15 (as stated): every bootstrap stage is retried until it succeeds: a
\* failure of begin, deleteProfiles, connectToAP, checkDHCP or getIPAddress
\* is followed by another attempt of that stage.
C15_RetryEveryStage ==
  \A k \in 1..Len(calls) :
     (IsStageCall(calls[k]) /\ ~calls[k].ok) => AttemptedAgain(k)

TimesCalled(op) == Cardinality({k \in 1..Len(calls) : calls[k].op = op})

\* C15 (amended): only the two polling stages are retried until they
\* succeed.  begin, deleteProfiles and connectToAP are each called at most
\* once, and a failure of one of them is the last driver call: the device
\* halts and never attempts the stage again.
C15_RetryOnlyPolls ==
  /\ \A op \in {"begin", "deleteProfiles", "connectToAP"} : TimesCalled(op) <= 1
  /\ \A k \in 1..Len(calls) :
       (IsStageCall(calls[k]) /\ ~calls[k].ok) =>
          IF calls[k].op \in {"checkDHCP", "getIPAddress"}
            THEN AttemptedAgain(k)
            ELSE k = Len(calls) /\ pc = "halted"

\* An address poll reported "not ready", was repeated, and then succeeded.
C15_Witness ==
  \E k \in 1..Len(calls) - 1 :
     /\ calls[k] = Call("getIPAddress", FALSE)
     /\ calls[k + 1] = Call("getIPAddress", TRUE)

\* ====================================================== claims, dispatch
Issued(op) == \E k \in 1..Len(calls) : calls[k].op = op

\* setup() has run to its last statement.
SetupFinished ==
  /\ Issued("mqtt.connect")
  /\ mqttConnected => Issued("mqtt.subscribe")
  /\ variant = "stream" => calls[Len(calls)] = Call("flash.seek", TRUE)

\* C16: the relay callback runs only inside a loop() call made after setup()
\* has finished and the session has connected, and one loop() call runs at
\* most one invocation: invocations never outnumber loop() calls, so none
\* is nested in or concurrent with another.
C16_CallbackOnlyInsideLoop ==
  /\ invocations <= loopCalls
  /\ (InCallback \/ pc = "crashed") =>
        /\ loopCalls >= 1 /\ invocations >= 1
        /\ SetupFinished
        /\ Call("mqtt.connect", TRUE) \in {calls[k] : k \in 1..Len(calls)}
        /\ mqttConnected
  /\ invocations >= 1 => SetupFinished

\* A second invocation is running inside the second loop() call.
C16_Witness ==
  /\ InCallback
  /\ invocations = 2 /\ loopCalls = 2

\* ================================================ claims, stream sketch
\* C17: stream sketch: the callback issues no publish; the only publish is
\* the announcement setup() makes right after a successful connect, so at
\* most one publish has been issued whatever messages have come in.
C17_StreamNeverRepublishes ==
  variant = "stream" =>
     /\ relayPublishes = 0
     /\ cbPubs = <<>>
     /\ TimesCalled("mqtt.publish") <= 1
     /\ \A k \in 1..Len(calls) :
          calls[k].op = "mqtt.publish" =>
             k > 1 /\ calls[k - 1] = Call("mqtt.connect", TRUE)

\* Two messages have been handled and the announcement is the only publish.
C17_Witness ==
  /\ variant = "stream" /\ pc = "cb_return"
  /\ invocations = 2 /\ length > 0 /\ cbReads = length
  /\ TimesCalled("mqtt.publish") = 1

\* ====================================================== claims, liveness
BeforeDhcpBound == pc \in {"setup", "flash_init", "begin", "firmware", "mac",
                           "deleteProfiles", "connectToAP", "checkDHCP",
                           "halted"}

\* C18: once begin, deleteProfiles and connectToAP have succeeded, and with
\* a driver that does report DHCP completion and the address record,
\* bootstrap completes, setup() finishes and loop() calls mqttclient.loop().
\* There is no timeout: the DHCP wait is left only by a checkDHCP() that
\* returned true, and until then the device is nowhere past it.
C18_BootstrapCompletes ==
  /\ (Call("connectToAP", TRUE) \in {calls[k] : k \in 1..Len(calls)})
        ~> (SetupFinished /\ loopCalls >= 1)
  /\ [](~(Call("checkDHCP", TRUE) \in {calls[k] : k \in 1..Len(calls)})
          => BeforeDhcpBound)
  /\ [][(pc = "checkDHCP" /\ pc' # "checkDHCP") =>
          (pc' = "getIPAddress" /\ calls'[Len(calls')] = Call("checkDHCP", TRUE))]_vars

\* loop() has been called after a DHCP wait that was not over at once.
C18_Witness ==
  /\ pc = "loop" /\ loopCalls >= 1
  /\ NotReady("checkDHCP") >= 1
  /\ SetupFinished

ConnectFailed == \E k \in 1..Len(calls) : ConnectFailedAt(k)

\* C19: mqttclient.connect() is attempted exactly once.  Its failure is not
\* retried and is not fatal: the device neither halts nor subscribes, the
\* session is never Subscribed, setup() runs to its end and loop() is still
\* called.
C19_ConnectOnceFailureNotFatal ==
  /\ [](TimesCalled("mqtt.connect") <= 1)
  /\ [](ConnectFailed =>
          /\ pc \in {"flash_begin", "flash_seek", "loop"}
          /\ ~mqttConnected /\ ~subscribed
          /\ ~Issued("mqtt.subscribe") /\ ~Issued("mqtt.publish"))
  /\ [](SetupFinished => TimesCalled("mqtt.connect") = 1)
  /\ ConnectFailed ~> (SetupFinished /\ pc = "loop" /\ loopCalls >= 1)

\* The stream sketch after a failed connect: flash was still set up and
\* loop() has been called.
C19_Witness ==
  /\ variant = "stream" /\ ConnectFailed
  /\ Issued("flash.begin") /\ SetupFinished
  /\ pc = "loop" /\ loopCalls >= 1

FlashInitFailed ==
  Len(calls) > 0 /\ calls[1] = Call("flash.initialize", FALSE)

\* C20: a failed flash.initialize() is not fatal and changes no later step.
\* The step that reports the failure goes on to the network bring-up and
\* touches nothing else; afterwards the device halts only on a failed
\* begin, deleteProfiles or connectToAP, setup() still calls flash.begin()
\* and flash.seek(1), and the callback still seeks, reads the whole message
\* and resets the cursor.
C20_FlashInitFailureIgnored ==
  /\ [][pc = "flash_init" =>
          /\ pc' = "begin"
          /\ Len(calls') = Len(calls) + 1
          /\ UNCHANGED <<variant, sessionVars, countVars, cbVars>>]_vars
  /\ [](FlashInitFailed =>
          /\ Len(calls) >= 2 => calls[2].op = "begin"
          /\ pc = "halted" =>
               calls[Len(calls)] \in {Call("begin", FALSE),
                                      Call("deleteProfiles", FALSE),
                                      Call("connectToAP", FALSE)}
          /\ pc = "loop" =>
               /\ Issued("flash.begin")
               /\ calls[Len(calls)] = Call("flash.seek", TRUE)
               /\ cursor = SENTINEL
          /\ pc = "cb_return" =>
               /\ cbSeeks = 2
               /\ cbReads = length
               /\ cursor = SENTINEL)

\* The initialisation failed, and a message was later read back in full.
C20_Witness ==
  /\ FlashInitFailed
  /\ pc = "cb_return" /\ length > 0 /\ cbReads = length /\ cbSeeks = 2

====
